---- MODULE Spec2Model ----
(***************************************************************************)
(* Asynchronous video-conversion job service: the Dispatcher (submit), the  *)
(* Job Runner (transcode_video / transcode_worker), the download path with  *)
(* its post-download cleanup (delete_file_task) and the Retention Sweeper   *)
(* (cleanup_old_files), over the shared state store and file area.          *)
(*                                                                          *)
(* The repository holds two variants of the service:                        *)
(*   "core"  - core/api.py + core/worker.py + core/storage.py, started by   *)
(*             server.py (thread per job, LocalStorage);                    *)
(*   "modal" - main.py (spawned worker, Dict + Volume, cleanup + sweeper).  *)
(* The variable `variant` fixes which one a behaviour runs.                 *)
(*                                                                          *)
(* Spec is the whole service, with the progress feed (sse_progress).        *)
(* SpecRetention runs the Sweeper over a store of finished jobs, SpecEngine *)
(* builds the engine invocation for every request, SpecStorage calls the    *)
(* storage interface on its own.                                            *)
(***************************************************************************)
EXTENDS Integers, Sequences, FiniteSets, TLC

\* ---------------------------------------------------------------- bounds
MaxJobs == 1         \* submissions accepted in one behaviour
MaxDownloads == 2    \* download requests in one behaviour

\* ------------------------------------------------------ program constants
RETENTION_HOURS == 24

Variants == {"core", "modal"}
JobIds == 1..MaxJobs
DownloadIds == 1..MaxDownloads

\* RsVideoFormat values a request may ask for, and format.to_extension()
Formats == {"mkv", "mp4"}

to_extension(format) ==
    CASE format = "mkv" -> ".mkv"
      [] format = "mp4" -> ".mp4"

\* f"output{job.request.format.to_extension()}"
OutputName(format) ==
    CASE to_extension(format) = ".mkv" -> "output.mkv"
      [] to_extension(format) = ".mp4" -> "output.mp4"

\* job.source as the handler sees it: <<>> is a missing source (None),
\* <<url>> a source whose url may be the empty string.
Sources == {<<>>, <<"">>, <<"http://src/video">>}

VideoConvertJob == [source : Sources, format : Formats]

\* time.time(): a reading at least one retention window past the epoch
StartTime == RETENTION_HOURS * 3600 + 1
Times == {StartTime, StartTime + 1}

\* ffprobe's answer as probe_duration returns it: <<>> is None (the probe
\* failed or printed nothing), <<d>> a duration of d seconds
NoDuration == <<>>
Durations == {NoDuration, <<0>>, <<1>>}

\* a line of the engine's progress stream: <<"out_time_ms", n>> is
\* "out_time_ms=<n>", <<"out_time_ms">> is "out_time_ms=N/A" (a value float()
\* cannot parse), <<"progress">> any line with another key
OutTimes == {0, 500, 2000}
Lines == {<<"out_time_ms", t>> : t \in OutTimes} \cup {<<"out_time_ms">>, <<"progress">>}

VARIABLES
    variant,      \* which service variant runs
    progress_kv,  \* the state store: job id -> state record (a dict)
    files,        \* the file area: set of existing paths <<job_id, name>>
    dirs,         \* job directories existing in the file area
    args,         \* job id -> the VideoConvertJob handed to its Runner
    submitPc,     \* job id -> position of the submit handler that made it
    sent400,      \* a submission has been answered 400
    runnerPc,     \* job id -> position of its Job Runner
    duration_s,   \* job id -> Runner local: probed duration
    pct,          \* job id -> Runner local: last computed percentage
    dlPc,         \* download id -> position of that download request
    dlJob,        \* download id -> the job id it asked for
    dlPath,       \* download id -> local `path` / `file_path`
    dlData,       \* download id -> local `data` of delete_file_task
    swPc,         \* position of the Retention Sweeper
    swTodo,       \* job ids the current pass has still to visit
    swJob,        \* the job id the pass is working on
    swData,       \* Sweeper local `data`
    cutoff_time,  \* Sweeper local `cutoff_time`
    swEligible,   \* history: job id -> record read, for the jobs the current
                  \* (or last) pass found eligible
    swRemoved,    \* history: jobs whose file the current (or last) pass removed
    swPrior,      \* history: jobs whose file an earlier pass removed
    swRaised,     \* history: jobs whose processing raised in the current
                  \* (or last) pass
    submitted_at, \* history: job id -> the time its submission was accepted
    removals,     \* history: job id -> successful removals of its output file
    feedPc,       \* position of the progress feed (sse_progress)
    feedJob,      \* the job id the feed was opened for
    sent_done,    \* feed local `sent_done`
    terminalEvents, \* history: terminal records the feed has emitted
    request,      \* job.request as the command builder sees it
    cmd,          \* the engine invocation built from it
    deleted_path, \* the path of the last storage.delete_file call
    delete_result \* how that call ended

storeVars == <<progress_kv, files, dirs>>
submitVars == <<args, submitPc, sent400>>
runnerVars == <<runnerPc, duration_s, pct>>
dlVars == <<dlPc, dlJob, dlPath, dlData>>
swVars == <<swPc, swTodo, swJob, swData, cutoff_time, swEligible, swRemoved,
            swPrior, swRaised>>

histVars == <<submitted_at, removals>>
feedVars == <<feedPc, feedJob, sent_done, terminalEvents>>
unitVars == <<request, cmd, deleted_path, delete_result>>

vars == <<variant, storeVars, submitVars, runnerVars, dlVars, swVars, histVars,
          feedVars, unitVars>>

\* ------------------------------------------------------------ state store
\* progress_kv[job_id] = data / storage.set_state(job_id, data): full overwrite
set_state(kv, job_id, data) ==
    [k \in (DOMAIN kv) \cup {job_id} |-> IF k = job_id THEN data ELSE kv[k]]

\* data.get(key, default)
DictGet(data, key, default) ==
    IF key \in DOMAIN data THEN data[key] ELSE default

\* data[key] = value on a dict
DictSet(data, key, value) ==
    [k \in (DOMAIN data) \cup {key} |-> IF k = key THEN value ELSE data[k]]

\* storage.get_file_path(job_id, filename) / f"/vol/{job_id}/output{ext}"
get_file_path(job_id, filename) == <<job_id, filename>>

\* os.path.dirname(file_path)
dirname(path) == path[1]

\* -------------------------------------------------------------- Dispatcher
\* a check that tests the source alone and lets an empty url through
MissingUrlSourceOnly(job) == job.source = <<>>

\* `not job.source or not job.source.url`
MissingUrl(job) == IF job.source = <<>> THEN TRUE ELSE job.source[1] = ""

QueuedRecord == [status |-> "queued", progress |-> 0, message |-> "Queued"]

\* a submit that launches the Runner without the initial state write
SubmitWriteSkipped(kv, job_id) == kv

\* the initial state write of submit
SubmitWrite(kv, job_id) == set_state(kv, job_id, QueuedRecord)

\* uuid.uuid4(): an id no earlier submission got
FreshId == Cardinality({j \in JobIds : submitPc[j] # "none"}) + 1

\* a local variable that holds nothing
NoData == <<>>
NoPath == <<>>
NoJob == MaxJobs + 1    \* an id outside JobIds

\* the job ids the store can hold or be called with: those of the jobs
\* submitted in this behaviour and one of a job that was not
StorageIds == JobIds \cup {NoJob}

\* no feed is open
FeedIdle ==
    /\ feedPc = "idle"
    /\ feedJob = NoJob
    /\ sent_done = FALSE
    /\ terminalEvents = 0

\* no command has been built and delete_file has not been called
UnitsIdle ==
    /\ request = <<>>
    /\ cmd = <<>>
    /\ deleted_path = NoPath
    /\ delete_result = "none"

\* the service after construction: an empty store, nothing running
Fresh ==
    /\ progress_kv = <<>>
    /\ files = {}
    /\ dirs = {}
    /\ args = [j \in JobIds |-> [source |-> <<"http://src/video">>, format |-> "mkv"]]
    /\ submitPc = [j \in JobIds |-> "none"]
    /\ sent400 = FALSE
    /\ runnerPc = [j \in JobIds |-> "idle"]
    /\ duration_s = [j \in JobIds |-> NoDuration]
    /\ pct = [j \in JobIds |-> 0]
    /\ dlPc = [d \in DownloadIds |-> "idle"]
    /\ dlJob = [d \in DownloadIds |-> NoJob]
    /\ dlPath = [d \in DownloadIds |-> NoPath]
    /\ dlData = [d \in DownloadIds |-> NoData]
    /\ swPc = "idle"
    /\ swTodo = {}
    /\ swJob = NoJob
    /\ swData = NoData
    /\ cutoff_time = 0
    /\ swEligible = <<>>
    /\ swRemoved = {}
    /\ swPrior = {}
    /\ swRaised = {}
    /\ submitted_at = [j \in JobIds |-> 0]
    /\ removals = [j \in JobIds |-> 0]
    /\ FeedIdle

Init ==
    /\ variant \in Variants
    /\ Fresh
    /\ UnitsIdle

\* POST /submit with a missing source or url: 400, nothing else happens
SubmitReject ==
    /\ \E job \in VideoConvertJob : MissingUrl(job)
    /\ sent400' = TRUE
    /\ UNCHANGED <<unitVars, feedVars, histVars, variant,
                   storeVars, args, submitPc, runnerVars, dlVars, swVars>>

\* POST /submit, accepted: allocate the id and write the queued record
SubmitAccept ==
    /\ FreshId \in JobIds
    /\ \E job \in VideoConvertJob :
          /\ ~MissingUrl(job)
          /\ args' = [args EXCEPT ![FreshId] = job]
    /\ progress_kv' = SubmitWrite(progress_kv, FreshId)
    /\ submitPc' = [submitPc EXCEPT ![FreshId] = "written"]
    /\ \E now \in Times : submitted_at' = [submitted_at EXCEPT ![FreshId] = now]
    /\ UNCHANGED <<unitVars, feedVars, removals, variant,
                   files, dirs, sent400, runnerVars, dlVars, swVars>>

\* worker_func(job_id, job) / transcode_worker.spawn(job_id, job=job)
SubmitSpawn(j) ==
    /\ submitPc[j] = "written"
    /\ submitPc' = [submitPc EXCEPT ![j] = "spawned"]
    /\ runnerPc' = [runnerPc EXCEPT ![j] = "start"]
    /\ UNCHANGED <<unitVars, feedVars, histVars, variant,
                   storeVars, args, sent400, duration_s, pct, dlVars, swVars>>

\* return {"job_id": job_id}
SubmitReturn(j) ==
    /\ submitPc[j] = "spawned"
    /\ submitPc' = [submitPc EXCEPT ![j] = "returned"]
    /\ UNCHANGED <<unitVars, feedVars, histVars, variant,
                   storeVars, args, sent400, runnerVars, dlVars, swVars>>

\* GET /status/{job_id}: 404 when `not data`, else the record
StatusCode(kv, job_id) ==
    IF job_id \in DOMAIN kv
    THEN IF DOMAIN kv[job_id] # {} THEN 200 ELSE 404
    ELSE 404

\* -------------------------------------------------------------- Job Runner
DownloadingRecord ==
    [status |-> "downloading", progress |-> 0, message |-> "Downloading source"]

EncodingStartedRecord ==
    [status |-> "encoding", progress |-> 0, message |-> "Encoding started"]

ProgressRecord(p) ==
    [status |-> "encoding", progress |-> p, message |-> "Encoding in progress"]

\* the output path of a job
Dst(j) == get_file_path(j, OutputName(args[j].format))

\* the completed record: core records the name of the requested format,
\* main.py the fixed name "output.mkv"
CompletedRecord(j) ==
    [status |-> "completed", progress |-> 100, message |-> "Done",
     file_path |-> Dst(j),
     file_name |-> IF variant = "core" THEN OutputName(args[j].format)
                   ELSE "output.mkv"]

\* the record written when the engine exits with a non-zero code
ExitFailedRecord(p) ==
    IF variant = "core"
    THEN [status |-> "failed", progress |-> 0, message |-> "Encoding failed"]
    ELSE [status |-> "failed", progress |-> p,
          message |-> "FFmpeg exited with code 1"]

\* the record written when reading the engine's output raises
RaiseFailedRecord(p) ==
    IF variant = "core"
    THEN [status |-> "failed", progress |-> 0, message |-> "Encoding failed"]
    ELSE [status |-> "failed", progress |-> p,
          message |-> "Error: reading the engine output failed"]

Min(a, b) == IF a <= b THEN a ELSE b

\* pct after one line of engine output, with a missing duration taken as 1 s
NextPctAssumedDuration(p, d, line) ==
    IF Len(line) = 2 /\ line[1] = "out_time_ms"
    THEN IF d = NoDuration THEN Min(99, (line[2] * 100) \div 1000)
         ELSE IF d[1] > 0 THEN Min(99, (line[2] * 100) \div (d[1] * 1000))
         ELSE p
    ELSE p

\* pct after one line of engine output, computed without the clamp
NextPctUnclamped(p, d, line) ==
    IF Len(line) = 2 /\ line[1] = "out_time_ms"
    THEN IF d # NoDuration /\ d[1] > 0
         THEN (line[2] * 100) \div (d[1] * 1000)
         ELSE p
    ELSE p

\* pct after one line of engine output
NextPct(p, d, line) ==
    IF Len(line) = 2 /\ line[1] = "out_time_ms"
    THEN IF d # NoDuration /\ d[1] > 0
         THEN Min(99, (line[2] * 100) \div (d[1] * 1000))
         ELSE p
    ELSE p

\* the Runner's locals are gone once it has ended
RunnerEnds(j, pc) ==
    /\ runnerPc' = [runnerPc EXCEPT ![j] = pc]
    /\ duration_s' = [duration_s EXCEPT ![j] = NoDuration]
    /\ pct' = [pct EXCEPT ![j] = 0]

\* Runner entry: the downloading record (main.py also makes the job directory)
RunnerStart(j) ==
    /\ runnerPc[j] = "start"
    /\ progress_kv' = set_state(progress_kv, j, DownloadingRecord)
    /\ dirs' = IF variant = "modal" THEN dirs \cup {j} ELSE dirs
    /\ runnerPc' = [runnerPc EXCEPT ![j] = "fetch"]
    /\ UNCHANGED <<unitVars, feedVars, histVars, variant,
                   files, submitVars, duration_s, pct, dlVars, swVars>>

\* requests.get(...) / raise_for_status(): the fetch succeeds, or raises and
\* the exception leaves the Runner (no handler encloses it)
Fetch(j) ==
    /\ runnerPc[j] = "fetch"
    /\ \E ok \in BOOLEAN :
          runnerPc' = [runnerPc EXCEPT ![j] = IF ok THEN "probe" ELSE "fetch_raised"]
    /\ UNCHANGED <<unitVars, feedVars, histVars, variant,
                   storeVars, submitVars, duration_s, pct, dlVars, swVars>>

\* probe the duration, fix the output path, write the encoding record
EncodeStart(j) ==
    /\ runnerPc[j] = "probe"
    /\ \E d \in Durations : duration_s' = [duration_s EXCEPT ![j] = d]
    /\ dirs' = dirs \cup {j}
    /\ progress_kv' = set_state(progress_kv, j, EncodingStartedRecord)
    /\ runnerPc' = [runnerPc EXCEPT ![j] = "popen"]
    /\ UNCHANGED <<unitVars, feedVars, histVars, variant,
                   files, submitVars, pct, dlVars, swVars>>

\* subprocess.Popen(cmd, ...): starts the engine, or raises outside any handler
Popen(j) ==
    /\ runnerPc[j] = "popen"
    /\ \E ok \in BOOLEAN :
          IF ok
          THEN /\ runnerPc' = [runnerPc EXCEPT ![j] = "read"]
               /\ pct' = [pct EXCEPT ![j] = 0]
               /\ UNCHANGED duration_s
          ELSE RunnerEnds(j, "popen_raised")
    /\ UNCHANGED <<unitVars, feedVars, histVars, variant,
                   storeVars, submitVars, dlVars, swVars>>

\* one iteration of `for line in stdout`: update pct, and publish it when more
\* than half a second passed since the last publication
ReadLine(j) ==
    /\ runnerPc[j] = "read"
    /\ \E line \in Lines, emit \in BOOLEAN :
          LET p == NextPct(pct[j], duration_s[j], line) IN
          /\ pct' = [pct EXCEPT ![j] = p]
          /\ progress_kv' = IF emit THEN set_state(progress_kv, j, ProgressRecord(p))
                            ELSE progress_kv
    /\ UNCHANGED <<unitVars, feedVars, histVars, variant,
                   files, dirs, submitVars, runnerPc, duration_s, dlVars, swVars>>

\* reading the engine's output raises: the handler turns it into a failed job
ReadRaise(j) ==
    /\ runnerPc[j] = "read"
    /\ progress_kv' = set_state(progress_kv, j, RaiseFailedRecord(pct[j]))
    /\ RunnerEnds(j, "read_raised")
    /\ UNCHANGED <<unitVars, feedVars, histVars, variant,
                   files, dirs, submitVars, dlVars, swVars>>

\* end of output and proc.wait(): exit code 0 leaves the output file and the
\* completed record, any other code the failed record
Exit(j) ==
    /\ runnerPc[j] = "read"
    /\ \E ret \in {0, 1} :
          IF ret = 0
          THEN /\ files' = files \cup {Dst(j)}
               /\ progress_kv' = set_state(progress_kv, j, CompletedRecord(j))
               /\ RunnerEnds(j, "exit_ok")
          ELSE /\ files' = files
               /\ progress_kv' = set_state(progress_kv, j, ExitFailedRecord(pct[j]))
               /\ RunnerEnds(j, "exit_failed")
    /\ UNCHANGED <<unitVars, feedVars, histVars, variant,
                   dirs, submitVars, dlVars, swVars>>

\* ------------------------------------------------------------- file area
\* a removal that leaves the file in place
RemoveFileKept(fs, path) == fs

\* os.remove(path) followed by the removal of the job directory when empty
RemoveFile(fs, path) == fs \ {path}

\* history: one more successful os.remove of the output file of job_id
Removed(count, job_id) ==
    [count EXCEPT ![job_id] = Min(count[job_id] + 1, 2)]

RemoveDir(ds, fs, path) ==
    IF dirname(path) \in ds /\ {f \in fs : dirname(f) = dirname(path)} = {}
    THEN ds \ {dirname(path)}
    ELSE ds

\* a deletion update that overwrites the record with the deletion fields alone
MarkDeletedOverwrite(data, now) == [deleted |-> TRUE, deleted_at |-> now]

\* a deletion update that stamps the time and forgets the flag
MarkDeletedNoFlag(data, now) == DictSet(data, "deleted_at", now)

\* a deletion update that also rewrites a lifecycle field of the record
MarkDeletedRequeued(data, now) ==
    DictSet(DictSet(DictSet(data, "deleted", TRUE), "deleted_at", now),
            "status", "queued")

\* data["deleted"] = True; data["deleted_at"] = time.time()
MarkDeleted(data, now) == DictSet(DictSet(data, "deleted", TRUE), "deleted_at", now)

\* ---------------------------------------------------------------- download
\* checks that test the record alone and not that the file exists
DownloadCheckRecordOnly(kv, fs, job_id) ==
    IF job_id \notin DOMAIN kv THEN "not_ready"
    ELSE IF DictGet(kv[job_id], "status", "") # "completed" THEN "not_ready"
    ELSE IF DictGet(kv[job_id], "file_path", NoPath) = NoPath THEN "file_missing"
    ELSE "ok"

\* the two checks of GET /download/{job_id}: 200, or which 404 it answers
DownloadCheck(kv, fs, job_id) ==
    IF job_id \notin DOMAIN kv THEN "not_ready"
    ELSE IF DictGet(kv[job_id], "status", "") # "completed" THEN "not_ready"
    ELSE IF DictGet(kv[job_id], "file_path", NoPath) = NoPath THEN "file_missing"
    ELSE IF DictGet(kv[job_id], "file_path", NoPath) \notin fs THEN "file_missing"
    ELSE "ok"

\* RsVideoFormat.from_filename(name): the format named by the extension
from_filename(name) ==
    CASE name = "output.mkv" -> "mkv"
      [] name = "output.mp4" -> "mp4"

\* RsVideoFormat.as_mime()
as_mime(format) ==
    CASE format = "mkv" -> "video/x-matroska"
      [] format = "mp4" -> "video/mp4"

\* the filename of the Content-Disposition header of a download
AttachmentName(data) ==
    DictGet(data, "file_name", IF variant = "core" THEN "output.mp4" ELSE "output.mkv")

\* the media_type of the StreamingResponse of a download: core derives it from
\* the name, main.py answers a fixed type
MediaType(data) ==
    IF variant = "core" THEN as_mime(from_filename(AttachmentName(data)))
    ELSE "video/x-matroska"

\* a download request ends: its locals are gone
DownloadEnds(d, pc) ==
    /\ dlPc' = [dlPc EXCEPT ![d] = pc]
    /\ dlJob' = [dlJob EXCEPT ![d] = NoJob]
    /\ dlPath' = [dlPath EXCEPT ![d] = NoPath]
    /\ dlData' = [dlData EXCEPT ![d] = NoData]

\* GET /download/{job_id}: the handler up to the StreamingResponse it returns
DownloadRequest(d) ==
    /\ dlPc[d] = "idle"
    /\ \E job_id \in JobIds \cup {NoJob} :
          IF DownloadCheck(progress_kv, files, job_id) = "ok"
          THEN /\ dlPc' = [dlPc EXCEPT ![d] = "open"]
               /\ dlJob' = [dlJob EXCEPT ![d] = job_id]
               /\ dlPath' = [dlPath EXCEPT ![d] = progress_kv[job_id].file_path]
               /\ dlData' = dlData
          ELSE DownloadEnds(d, "resp404")
    /\ UNCHANGED <<unitVars, feedVars, histVars, variant,
                   storeVars, submitVars, runnerVars, swVars>>

\* file_iter(): open(path, "rb") and stream to the end; main.py then runs
\* delete_file_task, core/api.py is done
DownloadStream(d) ==
    /\ dlPc[d] = "open"
    /\ IF dlPath[d] \notin files THEN DownloadEnds(d, "open_raised")
       ELSE IF variant = "modal"
            THEN /\ dlPc' = [dlPc EXCEPT ![d] = "task"]
                 /\ UNCHANGED <<dlJob, dlPath, dlData>>
            ELSE DownloadEnds(d, "streamed")
    /\ UNCHANGED <<unitVars, feedVars, histVars, variant,
                   storeVars, submitVars, runnerVars, swVars>>

\* delete_file_task: `if os.path.exists(file_path)`
TaskExists(d) ==
    /\ dlPc[d] = "task"
    /\ IF dlPath[d] \in files
       THEN /\ dlPc' = [dlPc EXCEPT ![d] = "task_remove"]
            /\ UNCHANGED <<dlJob, dlPath, dlData>>
       ELSE DownloadEnds(d, "task_skipped")
    /\ UNCHANGED <<unitVars, feedVars, histVars, variant,
                   storeVars, submitVars, runnerVars, swVars>>

\* delete_file_task: os.remove and the directory; a file that vanished since
\* the check raises, and the handler of the task prints and ends it
TaskRemove(d) ==
    /\ dlPc[d] = "task_remove"
    /\ IF dlPath[d] \in files
       THEN /\ files' = RemoveFile(files, dlPath[d])
            /\ dirs' = RemoveDir(dirs, RemoveFile(files, dlPath[d]), dlPath[d])
            /\ removals' = Removed(removals, dlJob[d])
            /\ dlPc' = [dlPc EXCEPT ![d] = "task_get"]
            /\ UNCHANGED <<dlJob, dlPath, dlData>>
       ELSE /\ UNCHANGED <<files, dirs, removals>>
            /\ DownloadEnds(d, "task_raised")
    /\ UNCHANGED <<unitVars, feedVars, submitted_at, variant,
                   progress_kv, submitVars, runnerVars, swVars>>

\* delete_file_task: data = progress_kv.get(job_id, {})
TaskGet(d) ==
    /\ dlPc[d] = "task_get"
    /\ dlData' = [dlData EXCEPT ![d] =
                    IF dlJob[d] \in DOMAIN progress_kv THEN progress_kv[dlJob[d]]
                    ELSE NoData]
    /\ dlPc' = [dlPc EXCEPT ![d] = "task_set"]
    /\ UNCHANGED <<unitVars, feedVars, histVars, variant,
                   storeVars, submitVars, runnerVars, dlJob, dlPath, swVars>>

\* delete_file_task: mark the record deleted and write it back
TaskSet(d) ==
    /\ dlPc[d] = "task_set"
    /\ \E now \in Times :
          progress_kv' = set_state(progress_kv, dlJob[d], MarkDeleted(dlData[d], now))
    /\ DownloadEnds(d, "task_done")
    /\ UNCHANGED <<unitVars, feedVars, histVars, variant,
                   files, dirs, submitVars, runnerVars, swVars>>

\* ------------------------------------------------------- Retention Sweeper
\* the eligibility test with an inclusive age comparison
EligibleInclusive(data, cutoff) ==
    /\ DictGet(data, "status", "") = "completed"
    /\ ~DictGet(data, "downloaded", FALSE)
    /\ ~DictGet(data, "deleted", FALSE)
    /\ DictGet(data, "created_at", 0) <= cutoff

\* the condition under which cleanup_old_files deletes a job's file
Eligible(data, cutoff) ==
    /\ DictGet(data, "status", "") = "completed"
    /\ ~DictGet(data, "downloaded", FALSE)
    /\ ~DictGet(data, "deleted", FALSE)
    /\ DictGet(data, "created_at", 0) < cutoff

\* cutoff_time = time.time() - (RETENTION_HOURS * 3600)
Cutoff(now) == now - (RETENTION_HOURS * 3600)

\* an error handler outside the loop: the exception ends the scan
OnSweepErrorAbort(todo) == {}

\* `except Exception as e: print(...)` inside the loop body: the keys still to
\* visit stay
OnSweepError(todo) == todo

\* a pass starts: the cutoff and the keys to visit
SweepBegin ==
    /\ variant = "modal"
    /\ swPc = "idle"
    /\ \E now \in Times : cutoff_time' = Cutoff(now)
    /\ swTodo' = DOMAIN progress_kv
    /\ swPc' = "loop"
    /\ swEligible' = <<>>
    /\ swRemoved' = {}
    /\ swPrior' = swPrior \cup swRemoved
    /\ swRaised' = {}
    /\ UNCHANGED <<unitVars, feedVars, histVars, variant,
                   storeVars, submitVars, runnerVars, dlVars, swJob, swData>>

\* one key of the loop: read the record, test it, test that the file exists
SweepScan(job_id) ==
    /\ swPc = "loop"
    /\ job_id \in swTodo
    /\ swTodo' = swTodo \ {job_id}
    /\ LET data == progress_kv[job_id]
           path == DictGet(data, "file_path", NoPath)
       IN IF Eligible(data, cutoff_time)
          THEN /\ swEligible' = set_state(swEligible, job_id, data)
               /\ IF path # NoPath /\ path \in files
                  THEN /\ swPc' = "remove"
                       /\ swJob' = job_id
                       /\ swData' = data
                  ELSE UNCHANGED <<swPc, swJob, swData>>
          ELSE UNCHANGED <<swPc, swJob, swData, swEligible>>
    /\ UNCHANGED <<unitVars, feedVars, histVars, variant,
                   storeVars, submitVars, runnerVars, dlVars, cutoff_time,
                   swRemoved, swPrior, swRaised>>

\* os.remove and the directory; a file that vanished since the check raises,
\* and the handler of the loop body prints and goes on with the next key
SweepRemove ==
    /\ swPc = "remove"
    /\ IF swData.file_path \in files
       THEN /\ files' = RemoveFile(files, swData.file_path)
            /\ dirs' = RemoveDir(dirs, RemoveFile(files, swData.file_path),
                                 swData.file_path)
            /\ swRemoved' = swRemoved \cup {swJob}
            /\ removals' = Removed(removals, swJob)
            /\ swPc' = "set"
            /\ UNCHANGED <<swJob, swData, swTodo, swRaised>>
       ELSE /\ UNCHANGED <<files, dirs, swRemoved, removals>>
            /\ swRaised' = swRaised \cup {swJob}
            /\ swTodo' = OnSweepError(swTodo)
            /\ swPc' = "loop"
            /\ swJob' = NoJob
            /\ swData' = NoData
    /\ UNCHANGED <<unitVars, feedVars, submitted_at, variant,
                   progress_kv, submitVars, runnerVars, dlVars,
                   cutoff_time, swEligible, swPrior>>

\* mark the record deleted and write it back
SweepSet ==
    /\ swPc = "set"
    /\ \E now \in Times :
          progress_kv' = set_state(progress_kv, swJob, MarkDeleted(swData, now))
    /\ swPc' = "loop"
    /\ swJob' = NoJob
    /\ swData' = NoData
    /\ UNCHANGED <<unitVars, feedVars, histVars, variant,
                   files, dirs, submitVars, runnerVars, dlVars, swTodo,
                   cutoff_time, swEligible, swRemoved, swPrior, swRaised>>

\* the loop is over: out_vol.commit()
SweepEnd ==
    /\ swPc = "loop"
    /\ swTodo = {}
    /\ swPc' = "idle"
    /\ cutoff_time' = 0
    /\ UNCHANGED <<unitVars, feedVars, histVars, variant,
                   storeVars, submitVars, runnerVars, dlVars, swTodo, swJob,
                   swData, swEligible, swRemoved, swPrior, swRaised>>

\* ----------------------------------------------------------- progress feed
\* storage.get_state(job_id) or {"status": "unknown", "progress": 0}
FeedRead(kv, job_id) ==
    IF job_id \in DOMAIN kv
    THEN IF DOMAIN kv[job_id] # {} THEN kv[job_id]
         ELSE [status |-> "unknown", progress |-> 0]
    ELSE [status |-> "unknown", progress |-> 0]

\* data.get("status") in ("completed", "failed")
IsTerminal(data) == DictGet(data, "status", "") \in {"completed", "failed"}

\* GET /progress/{job_id}/events: the generator starts
FeedOpen ==
    /\ feedPc = "idle"
    /\ \E job_id \in JobIds \cup {NoJob} : feedJob' = job_id
    /\ sent_done' = FALSE
    /\ feedPc' = "poll"
    /\ UNCHANGED <<unitVars, terminalEvents, histVars, variant, storeVars,
                   submitVars, runnerVars, dlVars, swVars>>

\* one tick of event_gen: read the record, emit it, then break when a terminal
\* record was already seen, else note a terminal record and sleep
FeedTick ==
    /\ feedPc = "poll"
    /\ LET data == FeedRead(progress_kv, feedJob) IN
       /\ terminalEvents' = IF IsTerminal(data) THEN terminalEvents + 1
                            ELSE terminalEvents
       /\ feedPc' = IF IsTerminal(data) /\ sent_done THEN "stopped" ELSE "poll"
       /\ sent_done' = (sent_done \/ IsTerminal(data))
    /\ UNCHANGED <<unitVars, feedJob, histVars, variant, storeVars, submitVars,
                   runnerVars, dlVars, swVars>>

\* ------------------------------------------------------------ the service
Runner(j) ==
    \/ RunnerStart(j)
    \/ Fetch(j)
    \/ EncodeStart(j)
    \/ Popen(j)
    \/ ReadLine(j)
    \/ ReadRaise(j)
    \/ Exit(j)

Download(d) ==
    \/ DownloadRequest(d)
    \/ DownloadStream(d)
    \/ TaskExists(d)
    \/ TaskRemove(d)
    \/ TaskGet(d)
    \/ TaskSet(d)

Feed ==
    \/ FeedOpen
    \/ FeedTick

Sweeper ==
    \/ SweepBegin
    \/ \E job_id \in StorageIds : SweepScan(job_id)
    \/ SweepRemove
    \/ SweepSet
    \/ SweepEnd

Next ==
    \/ SubmitReject
    \/ SubmitAccept
    \/ \E j \in JobIds : SubmitSpawn(j)
    \/ \E j \in JobIds : SubmitReturn(j)
    \/ \E j \in JobIds : Runner(j)
    \/ \E d \in DownloadIds : Download(d)
    \/ Sweeper
    \/ Feed

Spec == Init /\ [][Next]_vars

(***************************************************************************)
(* The Retention Sweeper over a store that already holds finished jobs      *)
(* whose records carry created_at and downloaded, as the data model         *)
(* describes them: the inputs of the eligibility test of cleanup_old_files. *)
(***************************************************************************)
CreatedAts == {0, 1, 2, 3}

StoredPath(j) == get_file_path(j, "output.mkv")

\* the record of a finished job submitted at `created`
StoredRecord(j, status, created, downloaded) ==
    IF status = "completed"
    THEN [status |-> "completed", progress |-> 100, message |-> "Done",
          file_path |-> StoredPath(j), file_name |-> "output.mkv",
          created_at |-> created, downloaded |-> downloaded]
    ELSE [status |-> "failed", progress |-> 0,
          message |-> "FFmpeg exited with code 1",
          created_at |-> created, downloaded |-> downloaded]

InitRetention ==
    /\ variant = "modal"
    /\ \E st \in [JobIds -> {"completed", "failed"}],
          created \in [JobIds -> CreatedAts],
          downloaded \in [JobIds -> BOOLEAN] :
          /\ progress_kv = [j \in JobIds |->
                              StoredRecord(j, st[j], created[j], downloaded[j])]
          /\ files = {StoredPath(j) : j \in {k \in JobIds : st[k] = "completed"}}
          /\ dirs = {k \in JobIds : st[k] = "completed"}
          /\ runnerPc = [j \in JobIds |->
                           IF st[j] = "completed" THEN "exit_ok" ELSE "exit_failed"]
    /\ args = [j \in JobIds |-> [source |-> <<"http://src/video">>, format |-> "mkv"]]
    /\ submitPc = [j \in JobIds |-> "returned"]
    /\ sent400 = FALSE
    /\ duration_s = [j \in JobIds |-> NoDuration]
    /\ pct = [j \in JobIds |-> 0]
    /\ dlPc = [d \in DownloadIds |-> "idle"]
    /\ dlJob = [d \in DownloadIds |-> NoJob]
    /\ dlPath = [d \in DownloadIds |-> NoPath]
    /\ dlData = [d \in DownloadIds |-> NoData]
    /\ swPc = "idle"
    /\ swTodo = {}
    /\ swJob = NoJob
    /\ swData = NoData
    /\ cutoff_time = 0
    /\ swEligible = <<>>
    /\ swRemoved = {}
    /\ swPrior = {}
    /\ swRaised = {}
    /\ submitted_at = [j \in JobIds |-> 0]
    /\ removals = [j \in JobIds |-> 0]
    /\ FeedIdle
    /\ UnitsIdle

NextRetention == Sweeper

SpecRetention == InitRetention /\ [][NextRetention]_vars

(***************************************************************************)
(* The Transcode Engine Adapter: the engine invocation as a function of the *)
(* request's codec and quality value and of use_gpu.                        *)
(***************************************************************************)
\* the largest quality value of the engine ("Constant quality 0-51")
MAX_CQ == 51

\* job.request.codec: <<>> is None, <<c>> the codec c
Codecs == {<<>>, <<"av1">>, <<"h265">>, <<"h264">>}

\* job.request.crf: <<>> is None, <<q>> the value q
Crfs == {<<>>} \cup {<<q>> : q \in 0..MAX_CQ}

Requests == [codec : Codecs, crf : Crfs, use_gpu : BOOLEAN]

\* python's `value or default` on an optional integer: None and 0 are falsy
Or(value, default) ==
    IF value = <<>> THEN default
    ELSE IF value[1] = 0 THEN default ELSE value[1]

\* if not job.request.codec: job.request.codec = RsVideoCodec.AV1
WithDefaultCodec(req) ==
    [req EXCEPT !.codec = IF req.codec = <<>> THEN <<"av1">> ELSE req.codec]

\* the encoder, the quality option and its value in the command list
build_ffmpeg_command(req) ==
    IF req.use_gpu /\ req.codec = <<"av1">>
    THEN [encoder |-> "av1_nvenc", option |-> "-cq", quality |-> Or(req.crf, 32)]
    ELSE IF req.use_gpu /\ req.codec = <<"h265">>
    THEN [encoder |-> "hevc_nvenc", option |-> "-cq", quality |-> Or(req.crf, 28)]
    ELSE [encoder |-> "libsvtav1", option |-> "-crf", quality |-> Or(req.crf, 32)]

\* a Runner is entered with some request: core passes use_gpu, main.py has the
\* hardware profiles built in
InitEngine ==
    /\ variant \in Variants
    /\ Fresh
    /\ request \in {r \in Requests : variant = "modal" => r.use_gpu}
    /\ cmd = <<>>
    /\ deleted_path = NoPath
    /\ delete_result = "none"

\* the Runner sets the default codec and builds the command
BuildCommand ==
    /\ request # <<>>
    /\ cmd = <<>>
    /\ request' = WithDefaultCodec(request)
    /\ cmd' = build_ffmpeg_command(WithDefaultCodec(request))
    /\ UNCHANGED <<deleted_path, delete_result, feedVars, histVars, variant,
                   storeVars, submitVars, runnerVars, dlVars, swVars>>

NextEngine == BuildCommand

SpecEngine == InitEngine /\ [][NextEngine]_vars

(***************************************************************************)
(* The State Store on its own: the calls of the StorageBackend interface    *)
(* (LocalStorage in the core variant, ModalStorage in the modal one) and    *)
(* the engine writing an output file.                                       *)
(***************************************************************************)
StoragePaths == {get_file_path(j, OutputName(f)) : j \in StorageIds, f \in Formats}

\* a delete_file without the existence test: unlink / os.remove of a missing
\* path raises
delete_file_unchecked(fs, ds, path) ==
    IF path \in fs
    THEN [files |-> RemoveFile(fs, path),
          dirs |-> RemoveDir(ds, RemoveFile(fs, path), path),
          result |-> "removed"]
    ELSE [files |-> fs, dirs |-> ds, result |-> "raised"]

\* storage.delete_file(path): remove the file when it exists, and its parent
\* directory when that is left empty
delete_file(fs, ds, path) ==
    IF path \in fs
    THEN [files |-> RemoveFile(fs, path),
          dirs |-> RemoveDir(ds, RemoveFile(fs, path), path),
          result |-> "removed"]
    ELSE [files |-> fs, dirs |-> ds, result |-> "missing"]

\* storage.set_state(job_id, data)
StoreSetState(job_id) ==
    /\ \E data \in {QueuedRecord, DownloadingRecord} :
          progress_kv' = set_state(progress_kv, job_id, data)
    /\ UNCHANGED <<unitVars, feedVars, histVars, variant, files, dirs, submitVars,
                   runnerVars, dlVars, swVars>>

\* storage.get_file_path(job_id, filename): makes the job directory
StoreGetFilePath(job_id) ==
    /\ dirs' = dirs \cup {job_id}
    /\ UNCHANGED <<unitVars, feedVars, histVars, variant, progress_kv, files,
                   submitVars, runnerVars, dlVars, swVars>>

\* the engine writes its output file into an existing job directory
StoreWriteFile(path) ==
    /\ dirname(path) \in dirs
    /\ files' = files \cup {path}
    /\ UNCHANGED <<unitVars, feedVars, histVars, variant, progress_kv, dirs,
                   submitVars, runnerVars, dlVars, swVars>>

\* a call of storage.delete_file(path)
StoreDeleteFile(path) ==
    /\ files' = delete_file(files, dirs, path).files
    /\ dirs' = delete_file(files, dirs, path).dirs
    /\ deleted_path' = path
    /\ delete_result' = delete_file(files, dirs, path).result
    /\ UNCHANGED <<request, cmd, feedVars, histVars, variant, progress_kv,
                   submitVars, runnerVars, dlVars, swVars>>

NextStorage ==
    \/ \E job_id \in StorageIds : StoreSetState(job_id)
    \/ \E job_id \in StorageIds : StoreGetFilePath(job_id)
    \/ \E path \in StoragePaths : StoreWriteFile(path)
    \/ \E path \in StoragePaths : StoreDeleteFile(path)

SpecStorage == Init /\ [][NextStorage]_vars

(***************************************************************************)
(* The Sweeper and the downloads over a store that holds several finished   *)
(* jobs (progress_kv is a persistent Dict: it keeps the records of the jobs *)
(* of earlier runs), so that one pass has more than one job to process.     *)
(***************************************************************************)
\* the record main.py left for a finished job
FinishedRecord(j, status) ==
    IF status = "completed"
    THEN [status |-> "completed", progress |-> 100, message |-> "Done",
          file_path |-> StoredPath(j), file_name |-> "output.mkv"]
    ELSE [status |-> "failed", progress |-> 0,
          message |-> "FFmpeg exited with code 1"]

InitSweep ==
    /\ variant = "modal"
    /\ \E st \in [StorageIds -> {"completed", "failed"}] :
          /\ progress_kv = [j \in StorageIds |-> FinishedRecord(j, st[j])]
          /\ files = {StoredPath(j) : j \in {k \in StorageIds : st[k] = "completed"}}
          /\ dirs = {k \in StorageIds : st[k] = "completed"}
    /\ args = [j \in JobIds |-> [source |-> <<"http://src/video">>, format |-> "mkv"]]
    /\ submitPc = [j \in JobIds |-> "none"]
    /\ sent400 = FALSE
    /\ runnerPc = [j \in JobIds |-> "idle"]
    /\ duration_s = [j \in JobIds |-> NoDuration]
    /\ pct = [j \in JobIds |-> 0]
    /\ dlPc = [d \in DownloadIds |-> "idle"]
    /\ dlJob = [d \in DownloadIds |-> NoJob]
    /\ dlPath = [d \in DownloadIds |-> NoPath]
    /\ dlData = [d \in DownloadIds |-> NoData]
    /\ swPc = "idle"
    /\ swTodo = {}
    /\ swJob = NoJob
    /\ swData = NoData
    /\ cutoff_time = 0
    /\ swEligible = <<>>
    /\ swRemoved = {}
    /\ swPrior = {}
    /\ swRaised = {}
    /\ submitted_at = [j \in StorageIds |-> 0]
    /\ removals = [j \in StorageIds |-> 0]
    /\ FeedIdle
    /\ UnitsIdle

NextSweep ==
    \/ Sweeper
    \/ \E d \in DownloadIds : Download(d)

SpecSweep == InitSweep /\ [][NextSweep]_vars

\* ------------------------------------------------------------ vocabulary
Status(kv, j) == DictGet(kv[j], "status", "")

Terminal == {"completed", "failed"}

\* the positions of a Runner that has ended
RunnerEnded == {"fetch_raised", "popen_raised", "read_raised", "exit_ok", "exit_failed"}

\* the edges of the job state machine
Edges ==
    {<<"queued", "downloading">>, <<"downloading", "encoding">>,
     <<"encoding", "encoding">>, <<"encoding", "completed">>,
     <<"encoding", "failed">>, <<"downloading", "failed">>}

\* messages that name the reason of an engine failure
ReasonMessages ==
    {"FFmpeg exited with code 1", "Error: reading the engine output failed"}

(***************************************************************************)
(* C1. Every change of the status of a job's record, by the Dispatcher, the *)
(* Runner, the download cleanup or the Sweeper, follows an edge of the      *)
(* state machine; a new record starts queued; a record whose status is      *)
(* completed or failed keeps that status under every later write.           *)
(***************************************************************************)
C1_StatusFollowsEdges ==
    [][\A j \in DOMAIN progress_kv' :
         IF j \in DOMAIN progress_kv
         THEN Status(progress_kv', j) # Status(progress_kv, j)
                => <<Status(progress_kv, j), Status(progress_kv', j)>> \in Edges
         ELSE Status(progress_kv', j) = "queued"]_vars

\* a completed job whose record a deletion write has rewritten
C1_Witness ==
    \E j \in DOMAIN progress_kv :
        /\ Status(progress_kv, j) = "completed"
        /\ DictGet(progress_kv[j], "deleted", FALSE)

(***************************************************************************)
(* C2. Every accepted job reaches completed or failed: a Runner that has    *)
(* ended, whatever the fetch, the probe and the engine did, has left its    *)
(* job's record in a terminal status.                                       *)
(***************************************************************************)
C2_EndedRunnerLeftTerminal ==
    \A j \in JobIds :
        runnerPc[j] \in RunnerEnded => Status(progress_kv, j) \in Terminal

(***************************************************************************)
(* C3. When the source fetch fails, the record ends failed with a non-empty *)
(* message and progress 0.                                                  *)
(***************************************************************************)
C3_FetchFailureRecorded ==
    \A j \in JobIds :
        runnerPc[j] = "fetch_raised"
          => /\ Status(progress_kv, j) = "failed"
             /\ DictGet(progress_kv[j], "message", "") # ""
             /\ DictGet(progress_kv[j], "progress", 0) = 0

(***************************************************************************)
(* C4. When the engine cannot be started, its output cannot be read or it   *)
(* exits with a non-zero code, the Runner writes failed with a message that *)
(* names the reason and with the last progress value it computed.           *)
(***************************************************************************)
C4_EngineFailureRecorded ==
    [][\A j \in JobIds :
         (runnerPc[j] \in {"popen", "read"}
            /\ runnerPc'[j] \in {"popen_raised", "read_raised", "exit_failed"})
           => /\ Status(progress_kv', j) = "failed"
              /\ DictGet(progress_kv'[j], "message", "") \in ReasonMessages
              /\ DictGet(progress_kv'[j], "progress", 0) = pct[j]]_vars

(***************************************************************************)
(* C5. While the status is encoding the progress of successive records      *)
(* never decreases, whatever elapsed times the engine prints, and a         *)
(* completed record has progress 100.                                       *)
(***************************************************************************)
C5_ProgressMonotone ==
    [][\A j \in DOMAIN progress_kv :
         /\ (Status(progress_kv, j) = "encoding" /\ Status(progress_kv', j) = "encoding")
               => progress_kv'[j].progress >= progress_kv[j].progress
         /\ Status(progress_kv', j) = "completed"
               => progress_kv'[j].progress = 100]_vars

(***************************************************************************)
(* C6. The queued record is written before the Runner is launched and       *)
(* before submit returns: from the launch on, and so after submit returned, *)
(* a status query finds the record (200, never 404), and a Runner that is   *)
(* launched and has not run yet finds the record queued.                    *)
(***************************************************************************)
C6_VisibleOnceAccepted ==
    \A j \in JobIds :
        /\ submitPc[j] \in {"spawned", "returned"} => StatusCode(progress_kv, j) = 200
        /\ runnerPc[j] # "idle" => StatusCode(progress_kv, j) = 200
        /\ runnerPc[j] = "start"
             => j \in DOMAIN progress_kv /\ progress_kv[j] = QueuedRecord

\* submit has returned while the launched Runner has not run yet
C6_Witness ==
    \E j \in JobIds : submitPc[j] = "returned" /\ runnerPc[j] = "start"

(***************************************************************************)
(* C7. A submission without a source url is answered 400 and creates no     *)
(* job: the step that answers 400 writes no record, touches no file and     *)
(* launches no Runner, and every job that exists was submitted with a url.  *)
(***************************************************************************)
C7_MissingUrlRejected ==
    [][/\ sent400' # sent400
           => UNCHANGED <<progress_kv, files, dirs, args, submitPc, runnerPc>>
       /\ \A j \in JobIds :
             submitPc'[j] # "none"
               => IF args'[j].source = <<>> THEN FALSE
                  ELSE args'[j].source[1] # ""]_vars

\* a submission was answered 400 and the store holds no record
C7_Witness == sent400 /\ DOMAIN progress_kv = {}

\* the fields of a record other than the deletion fields
KeptFields(data) == (DOMAIN data) \ {"deleted", "deleted_at"}

\* the Sweeper wrote `data` back with the deletion fields set and the rest as read
MarkedFrom(rec, data) ==
    /\ DictGet(rec, "deleted", FALSE)
    /\ "deleted_at" \in DOMAIN rec
    /\ KeptFields(rec) = KeptFields(data)
    /\ \A f \in KeptFields(data) : rec[f] = data[f]

(***************************************************************************)
(* C8, as stated. After a Sweeper pass, every job the pass read as          *)
(* completed, not downloaded, not deleted and older than the window has its *)
(* file absent and its record marked deleted with a timestamp, the other    *)
(* fields as read.                                                          *)
(***************************************************************************)
C8_EligibleJobsMarked ==
    swPc = "idle"
      => \A j \in DOMAIN swEligible :
            /\ DictGet(swEligible[j], "file_path", NoPath) \notin files
            /\ MarkedFrom(progress_kv[j], swEligible[j])

(***************************************************************************)
(* C8, amended. After a Sweeper pass, every job the pass read as eligible   *)
(* has its file absent; when the pass itself removed the file, the record   *)
(* is marked deleted with a timestamp and the other fields are as read. A   *)
(* file a download cleanup removed first is left to that cleanup to record. *)
(***************************************************************************)
C8_SweptJobsMarked ==
    swPc = "idle"
      => \A j \in DOMAIN swEligible :
            /\ DictGet(swEligible[j], "file_path", NoPath) \notin files
            /\ j \in swRemoved => MarkedFrom(progress_kv[j], swEligible[j])

\* a pass has ended that removed the file of an eligible job
C8_Witness ==
    /\ swPc = "idle"
    /\ \E j \in DOMAIN swEligible : j \in swRemoved

(***************************************************************************)
(* C9, as stated. A completed, undownloaded, undeleted job whose created_at *)
(* equals the cutoff (now minus the retention window) is found eligible by  *)
(* the pass, and one whose created_at is a second later is not.             *)
(***************************************************************************)
Sweepable(data) ==
    /\ DictGet(data, "status", "") = "completed"
    /\ ~DictGet(data, "downloaded", FALSE)
    /\ ~DictGet(data, "deleted", FALSE)

\* the step of a pass that tests job j
Scans(j) == swPc = "loop" /\ j \in swTodo /\ j \notin swTodo'

C10_SweeperIdempotent ==
    \A j \in swPrior :
        /\ DictGet(progress_kv[j], "deleted", FALSE)
        /\ DictGet(progress_kv[j], "file_path", NoPath) \notin files
        /\ j \notin swRemoved
        /\ swPc \in {"remove", "set"} => swJob # j
        /\ j \notin DOMAIN swEligible

\* a second pass has ended over a job whose file the first pass removed
C10_Witness == swPc = "idle" /\ swPrior # {}

\* the positions of delete_file_task between its start and its end
TaskRunning == {"task", "task_remove", "task_get", "task_set"}

\* no post-download cleanup and no Sweeper step is under way on job j
CleanupQuiet(j) ==
    /\ \A d \in DownloadIds : dlPc[d] \in TaskRunning => dlJob[d] # j
    /\ swPc \in {"remove", "set"} => swJob # j

(***************************************************************************)
(* C11. Under every interleaving of the post-download cleanup and the       *)
(* Sweeper on one completed job, the output file is removed at most once;   *)
(* an actor that finds the file gone ends in its handler (the task ends,    *)
(* the pass goes on with its loop), never in a fatal error; and once the    *)
(* file was removed and both actors are done with the job, the file is      *)
(* absent and the record carries deleted = true.                            *)
(***************************************************************************)
C11_RaceLeavesOneDeletion ==
    /\ swPc \in {"idle", "loop", "remove", "set"}
    /\ \A d \in DownloadIds :
          dlPc[d] \in {"idle", "resp404", "open", "open_raised", "streamed",
                       "task_done", "task_skipped", "task_raised"} \cup TaskRunning
    /\ \A j \in JobIds :
          /\ removals[j] <= 1
          /\ (removals[j] = 1 /\ CleanupQuiet(j))
                => /\ Dst(j) \notin files
                   /\ DictGet(progress_kv[j], "deleted", FALSE)

\* the Sweeper removed the file between a cleanup's existence test and its
\* os.remove: the cleanup ended in its handler and the pass has ended
C11_Witness ==
    /\ swPc = "idle"
    /\ \E d \in DownloadIds : dlPc[d] = "task_raised"
    /\ \E j \in swRemoved \cup swPrior :
          removals[j] = 1 /\ DictGet(progress_kv[j], "deleted", FALSE)

(***************************************************************************)
(* C12. Once the progress feed has read a record with status completed or   *)
(* failed it emits that terminal record exactly once and stops: it never    *)
(* emits a second terminal record and does not poll again after the first.  *)
(***************************************************************************)
C12_TerminalEmittedOnce ==
    /\ terminalEvents <= 1
    /\ terminalEvents = 1 => feedPc = "stopped"

\* the positions of a download that has streamed its file to the end
Streamed == {"streamed", "task_done", "task_skipped", "task_raised"}

(***************************************************************************)
(* C13. When a download of a completed job has streamed its file to the end *)
(* and is over, the job's record has downloaded = true, or the file is gone *)
(* and the record has deleted = true; and a download of a job whose file    *)
(* was deleted is never served (it is answered not-found).                  *)
(***************************************************************************)
C13_DownloadRecordedOrDeleted ==
    [][\A d \in DownloadIds :
         /\ (dlPc[d] \in {"open"} \cup TaskRunning /\ dlPc'[d] \in Streamed)
               => \/ DictGet(progress_kv'[dlJob[d]], "downloaded", FALSE)
                  \/ /\ dlPath[d] \notin files'
                     /\ DictGet(progress_kv'[dlJob[d]], "deleted", FALSE)
         /\ (dlPc[d] = "idle" /\ dlPc'[d] = "open")
               => removals[dlJob'[d]] = 0]_vars

(***************************************************************************)
(* C14. A download request either is answered 404 or goes on to serve the   *)
(* file, and it serves only when the record exists, its status is completed *)
(* and the file at its file_path exists; the 404 answer (unknown job, other *)
(* status, missing file) changes neither the store nor the file area; and   *)
(* the file is streamed only while it exists.                               *)
(***************************************************************************)
C14_ServedOnlyWhenReady ==
    [][\A d \in DownloadIds :
         /\ (dlPc[d] = "idle" /\ dlPc'[d] # "idle")
               => /\ dlPc'[d] \in {"open", "resp404"}
                  /\ UNCHANGED <<progress_kv, files, dirs>>
                  /\ dlPc'[d] = "open"
                        => /\ dlJob'[d] \in DOMAIN progress_kv
                           /\ Status(progress_kv, dlJob'[d]) = "completed"
                           /\ dlPath'[d] = progress_kv[dlJob'[d]].file_path
                           /\ dlPath'[d] \in files
         /\ (dlPc[d] = "open" /\ dlPc'[d] \in {"task", "streamed"})
               => dlPath[d] \in files]_vars

\* a download was answered 404 although the job is completed (its file is
\* gone), after another download was served
C14_Witness ==
    /\ \E d \in DownloadIds : dlPc[d] = "resp404"
    /\ \E d \in DownloadIds : dlPc[d] \in Streamed
    /\ \E j \in DOMAIN progress_kv :
          Status(progress_kv, j) = "completed" /\ Dst(j) \notin files

(***************************************************************************)
(* C15. For every completed job and every requested format, the recorded    *)
(* file_name is the final component of file_path, that is output plus the   *)
(* extension of the requested format, and the attachment filename and the   *)
(* MIME type a download serves are the ones of that format.                 *)
(***************************************************************************)
C15_NameAndMimeFollowFormat ==
    \A j \in DOMAIN progress_kv :
        (Status(progress_kv, j) = "completed" /\ Dst(j) \in files)
          => /\ progress_kv[j].file_name = progress_kv[j].file_path[2]
             /\ progress_kv[j].file_name = OutputName(args[j].format)
             /\ AttachmentName(progress_kv[j]) = OutputName(args[j].format)
             /\ MediaType(progress_kv[j]) = as_mime(args[j].format)

\* the encoders that produce AV1
Av1Encoders == {"av1_nvenc", "libsvtav1"}

(***************************************************************************)
(* C16. In the engine invocation a request without codec is encoded as AV1; *)
(* a request without quality value gets 32 on the AV1 paths and 28 on the   *)
(* hardware HEVC path; and every quality value given explicitly, each       *)
(* integer from 0 to 51, is the value the invocation carries.               *)
(***************************************************************************)
C16_DefaultsAndExplicitQuality ==
    [][cmd' # cmd
         => /\ request.codec = <<>>
                 => (request'.codec = <<"av1">> /\ cmd'.encoder \in Av1Encoders)
            /\ request.crf = <<>>
                 => cmd'.quality = IF cmd'.encoder = "hevc_nvenc" THEN 28 ELSE 32
            /\ IF request.crf = <<>> THEN TRUE
               ELSE cmd'.quality = request.crf[1]]_vars

(***************************************************************************)
(* C17. A delete_file call on a path that does not exist raises nothing and *)
(* leaves the files, the directories and every state record as they were,   *)
(* with either storage backend.                                             *)
(***************************************************************************)
C17_DeleteMissingIsNoOp ==
    [][(<<deleted_path, delete_result>>' # <<deleted_path, delete_result>>
          /\ deleted_path' \notin files)
         => /\ delete_result' = "missing"
            /\ UNCHANGED <<files, dirs, progress_kv>>]_vars

\* delete_file was called on a missing path while the store holds records and
\* other files
C17_Witness ==
    /\ delete_result = "missing"
    /\ deleted_path \notin files
    /\ files # {}
    /\ DOMAIN progress_kv # {}

(***************************************************************************)
(* C18. Every record of a job, from the queued record written at submission *)
(* through downloading, encoding, completed or failed and the deletion      *)
(* updates, carries created_at, and its value is the time of submission.    *)
(***************************************************************************)
C18_CreatedAtKept ==
    \A j \in DOMAIN progress_kv :
        /\ "created_at" \in DOMAIN progress_kv[j]
        /\ DictGet(progress_kv[j], "created_at", 0) = submitted_at[j]

(***************************************************************************)
(* C19. The Sweeper removes the output file only of a job whose status is   *)
(* completed and whose submission lies at least one retention window before *)
(* the time the pass read: the file of a job submitted less than a window   *)
(* ago is never removed by the Sweeper.                                     *)
(***************************************************************************)
C19_OnlyExpiredSwept ==
    [][\A j \in JobIds :
         (j \in swRemoved' /\ j \notin swRemoved)
           => /\ Status(progress_kv, j) = "completed"
              /\ submitted_at[j] <= cutoff_time]_vars

(***************************************************************************)
(* C20. A record with status encoding never has progress above 99, whatever *)
(* the engine prints and whatever the probed duration is, elapsed time past *)
(* the duration included; progress 100 is only in the record of a job whose *)
(* engine process exited with code 0.                                       *)
(***************************************************************************)
C20_ClampedUntilExit ==
    \A j \in DOMAIN progress_kv :
        /\ Status(progress_kv, j) = "encoding"
              => DictGet(progress_kv[j], "progress", 0) <= 99
        /\ runnerPc[j] = "read" => pct[j] <= 99
        /\ DictGet(progress_kv[j], "progress", 0) >= 100
              => /\ progress_kv[j].progress = 100
                 /\ Status(progress_kv, j) = "completed"
                 /\ runnerPc[j] = "exit_ok"

\* the engine printed an elapsed time past the probed duration and the
\* encoding record was published at 99
C20_Witness ==
    \E j \in DOMAIN progress_kv :
        /\ Status(progress_kv, j) = "encoding"
        /\ progress_kv[j].progress = 99
        /\ duration_s[j] = <<1>>

(***************************************************************************)
(* C21. When the probe gives no duration the Runner still goes from         *)
(* downloading to encoding (the step after the fetch never fails the job),  *)
(* every progress update it then writes carries progress 0, and the job can *)
(* still complete.                                                          *)
(***************************************************************************)
C21_ProbeFailureDegrades ==
    [][\A j \in JobIds :
         /\ (runnerPc[j] = "probe" /\ runnerPc'[j] # "probe")
               => /\ runnerPc'[j] = "popen"
                  /\ Status(progress_kv, j) = "downloading"
                  /\ Status(progress_kv', j) = "encoding"
         /\ (runnerPc[j] = "read" /\ duration_s[j] = NoDuration)
               => /\ pct'[j] = 0
                  /\ Status(progress_kv', j) = "encoding"
                        => progress_kv'[j].progress = 0
                  /\ ENABLED (Exit(j) /\ runnerPc'[j] = "exit_ok")]_vars

\* a progress update was published by a Runner whose probe gave no duration
C21_Witness ==
    \E j \in DOMAIN progress_kv :
        /\ runnerPc[j] = "read"
        /\ duration_s[j] = NoDuration
        /\ progress_kv[j] = ProgressRecord(0)

(***************************************************************************)
(* C22. No write to the store removes a field the job's record had before   *)
(* the write: the records of the Runner, of the download cleanup and of the *)
(* Sweeper keep every field that was there, and file_path and file_name     *)
(* keep their values, although every write replaces the whole record.       *)
(***************************************************************************)
C22_NoFieldDropped ==
    [][\A j \in DOMAIN progress_kv :
         /\ j \in DOMAIN progress_kv'
         /\ DOMAIN progress_kv[j] \subseteq DOMAIN progress_kv'[j]
         /\ \A f \in {"file_path", "file_name"} \cap DOMAIN progress_kv[j] :
               progress_kv'[j][f] = progress_kv[j][f]]_vars

\* a completed record that a deletion write has rewritten holds all its fields
C22_Witness ==
    \E j \in DOMAIN progress_kv :
        DOMAIN progress_kv[j] = {"status", "progress", "message", "file_path",
                                 "file_name", "deleted", "deleted_at"}

(***************************************************************************)
(* C23. One kind of writer at a time: a Runner that has written completed   *)
(* or failed takes no further step; while the Runner of a job is under way  *)
(* no deletion write touches the record; and a deletion write is made only  *)
(* to a record whose status is completed, sets the deletion fields and      *)
(* leaves every field of the Runner as it was.                              *)
(***************************************************************************)
C23_OneWriterKind ==
    [][\A j \in DOMAIN progress_kv :
         /\ Status(progress_kv, j) \in Terminal
               => (runnerPc[j] \in RunnerEnded /\ runnerPc'[j] = runnerPc[j])
         /\ (progress_kv'[j] # progress_kv[j] /\ runnerPc[j] \notin RunnerEnded)
               => "deleted" \notin DOMAIN progress_kv'[j]
         /\ (progress_kv'[j] # progress_kv[j] /\ runnerPc[j] \in RunnerEnded)
               => /\ Status(progress_kv, j) = "completed"
                  /\ MarkedFrom(progress_kv'[j], progress_kv[j])]_vars

\* the Runner has ended and both the cleanup and the Sweeper have finished
\* their work on its job, one of them having written the deletion
C23_Witness ==
    \E j \in DOMAIN progress_kv :
        /\ runnerPc[j] = "exit_ok"
        /\ DictGet(progress_kv[j], "deleted", FALSE)
        /\ swPc = "idle"
        /\ \E d \in DownloadIds : dlPc[d] \in {"task_done", "task_skipped"}

(***************************************************************************)
(* C24. An error raised while a pass processes one job does not end the     *)
(* scan: the step that raises goes back to the loop with every key still to *)
(* visit, a pass ends only when no key is left, and when it ends every job  *)
(* it found eligible, before and after the error, has its file removed.     *)
(***************************************************************************)
C24_ErrorDoesNotAbortScan ==
    [][/\ swRaised' # swRaised /\ swPc = "remove"
           => (swPc' = "loop" /\ swTodo' = swTodo)
       /\ (swPc # "idle" /\ swPc' = "idle")
           => /\ swTodo = {}
              /\ \A j \in DOMAIN swEligible :
                    DictGet(swEligible[j], "file_path", NoPath) \notin files']_vars

\* the pass removes the file of one job after the processing of another job
\* raised in the same pass
C24_Witness ==
    /\ swPc = "set"
    /\ swRaised # {}
    /\ swJob \notin swRaised
    /\ swJob \in swRemoved

(***************************************************************************)
(* C25. A download that has passed its checks streams the file without      *)
(* error, whatever a Sweeper pass or another download's cleanup does in     *)
(* between: the file is still there when the download opens it, and no      *)
(* download ends with its open() raising.                                   *)
(***************************************************************************)
C25_CheckedDownloadStreams ==
    \A d \in DownloadIds :
        /\ dlPc[d] = "open" => dlPath[d] \in files
        /\ dlPc[d] # "open_raised"

====
